---- MODULE Spec2Model ----
(***************************************************************************)
(* Model of the GitHub PR review bot (github-bot/src/index.ts): one        *)
(* invocation of the POST /webhook handler, its helper functions, and the  *)
(* external calls it issues.  Text is modelled with TLA+ strings, so the   *)
(* substring test, the extension filter and the feedback parser work on    *)
(* characters as the source does.                                          *)
(***************************************************************************)
EXTENDS Integers, Sequences, FiniteSets, TLC

VARIABLES
    pc,            \* position of the handler: the await it is suspended at
    bodyText,      \* c.req.text()
    signature,     \* header x-hub-signature-256
    event,         \* header x-github-event
    secret,        \* c.env.GITHUB_SECRET
    signed,        \* what the sender signed: [body, key]
    verifierCalled,\* verifyWebhookSignature was invoked
    isValid,       \* result of verifyWebhookSignature
    payload,       \* JSON.parse(bodyText)
    files,         \* result of getPRFiles
    idx,           \* index in files of the file being processed
    content,       \* result of getFileContent for files[idx]
    review,        \* per file: result of reviewCode
    lineComments,  \* parseLineComments(review) for files[idx]
    k,             \* index in lineComments of the comment being posted
    calls,         \* external calls issued so far, in order
    pending,       \* the external call the handler is suspended at
    reply,         \* outcome of the fetch the handler last resumed from
    caught,        \* errors caught by the catch blocks so far, in order
    delays,        \* indices of the files after which the pacing delay ran
    responses,     \* responses sent to the webhook caller, in order
    parseArg,      \* parseLineComments on its own: the argument review
    parseResult,   \* parseLineComments on its own: the value returned
    active,        \* two invocations: the one that is running (0: one alone)
    suspended      \* two invocations: the local variables of the other one

vars == <<pc, bodyText, signature, event, secret, signed, verifierCalled,
          isValid, payload, files, idx, content, review, lineComments, k,
          calls, pending, reply,
          caught, delays, responses, parseArg, parseResult,
          active, suspended>>

----------------------------------------------------------------------------
(* JavaScript values that are not strings *)

Undefined == "<undefined>"
Null == "<null>"

\* Mutant: every value counts as present.
Truthy_Always(v) == TRUE

Truthy(v) == v /= Undefined /\ v /= Null /\ v /= ""

----------------------------------------------------------------------------
(* Bounds *)

MaxFiles == 2
MaxLines == 2

----------------------------------------------------------------------------
(* String primitives of the runtime *)

CharAt(s, i) == SubSeq(s, i, i)

\* String.prototype.includes
Includes(s, sub) ==
    \E i \in 1..(Len(s) - Len(sub) + 1) : SubSeq(s, i, i + Len(sub) - 1) = sub

\* String.prototype.endsWith
EndsWith(s, suf) ==
    /\ Len(suf) <= Len(s)
    /\ SubSeq(s, Len(s) - Len(suf) + 1, Len(s)) = suf

StartsWith(s, pre) ==
    /\ Len(pre) <= Len(s)
    /\ SubSeq(s, 1, Len(pre)) = pre

\* position of the first "\n" of s, 0 when there is none
NewlineAt(s) ==
    LET at == {i \in 1..Len(s) : CharAt(s, i) = "\n"} IN
    IF at = {} THEN 0 ELSE CHOOSE i \in at : \A j \in at : i <= j

\* review.split("\n")
RECURSIVE SplitLines(_)
SplitLines(s) ==
    LET n == NewlineAt(s) IN
    IF n = 0 THEN <<s>>
    ELSE <<SubSeq(s, 1, n - 1)>> \o SplitLines(SubSeq(s, n + 1, Len(s)))

Digits == "0123456789"
IsDigit(c) == \E i \in 1..10 : CharAt(Digits, i) = c
DigitVal(c) == (CHOOSE i \in 1..10 : CharAt(Digits, i) = c) - 1

\* \s of the regular expression, over the characters the model uses
IsSpace(c) == c \in {" ", "\t", "\r", "\n"}
\* the characters "." does not match
IsLineTerminator(c) == c \in {"\n", "\r"}

\* parseInt on a non-empty string of decimal digits
RECURSIVE ParseInt(_)
ParseInt(d) ==
    IF Len(d) = 0 THEN 0
    ELSE 10 * ParseInt(SubSeq(d, 1, Len(d) - 1)) + DigitVal(CharAt(d, Len(d)))

\* String.prototype.trim
RECURSIVE TrimStart(_)
TrimStart(s) ==
    IF Len(s) > 0 /\ IsSpace(CharAt(s, 1)) THEN TrimStart(Tail(s)) ELSE s

RECURSIVE TrimEnd(_)
TrimEnd(s) ==
    IF Len(s) > 0 /\ IsSpace(CharAt(s, Len(s)))
    THEN TrimEnd(SubSeq(s, 1, Len(s) - 1)) ELSE s

Trim(s) == TrimEnd(TrimStart(s))

----------------------------------------------------------------------------
(* Signature Verifier *)

HexDigits == "0123456789abcdef"

\* Number.prototype.toString(16) of a byte
ToString16(b) ==
    IF b < 16 THEN CharAt(HexDigits, b + 1)
    ELSE CharAt(HexDigits, (b \div 16) + 1) \o CharAt(HexDigits, (b % 16) + 1)

\* Mutant: the hex form of a byte is not padded.
PadStart2_None(s) == s

\* String.prototype.padStart(2, "0")
PadStart2(s) == IF Len(s) < 2 THEN "0" \o s ELSE s

\* hashArray.map((b) => b.toString(16).padStart(2, "0")).join("")
RECURSIVE HashHex(_)
HashHex(bytes) ==
    IF Len(bytes) = 0 THEN ""
    ELSE PadStart2(ToString16(Head(bytes))) \o HashHex(Tail(bytes))

\* The request bodies and the secrets of the model
BodyOpened == "{\"action\":\"opened\",\"number\":7}"
BodySynchronize == "{\"action\":\"synchronize\",\"number\":8}"
BodyClosed == "{\"action\":\"closed\",\"number\":7}"
BodyNoAction == "{\"zen\":\"Keep it simple\"}"
BodyNotJson == "payload=%7B%7D"

BodyTexts == <<BodyOpened, BodySynchronize, BodyClosed, BodyNoAction, BodyNotJson>>
Secrets == <<"s3cret", "0ther">>

IndexIn(seq, x) == CHOOSE i \in 1..Len(seq) : seq[i] = x

\* crypto.subtle.sign("HMAC", key, body): the keyed hash, an injective
\* function of (body, key) on the bodies and secrets of the model.  The
\* digests contain bytes below 16, so the padding of the hex form matters.
HmacSha256(key, body) ==
    LET n == (IndexIn(BodyTexts, body) - 1) * Len(Secrets) + (IndexIn(Secrets, key) - 1)
    IN  IF n % 2 = 0 THEN <<1, 16 * (n + 2) + 3>> ELSE <<16 + n + 1, 3>>

verifyWebhookSignature(body, sig, key) ==
    LET hashHex == HashHex(HmacSha256(key, body))
        expected == "sha256=" \o hashHex
    IN  sig = expected

\* The token the sending platform puts in x-hub-signature-256: the tag
\* "sha256=" and two lowercase hex digits for each byte of the digest.
RECURSIVE TwoDigitHex(_)
TwoDigitHex(bytes) ==
    IF Len(bytes) = 0 THEN ""
    ELSE CharAt(HexDigits, (Head(bytes) \div 16) + 1)
         \o CharAt(HexDigits, (Head(bytes) % 16) + 1)
         \o TwoDigitHex(Tail(bytes))

SenderSignature(body, key) == "sha256=" \o TwoDigitHex(HmacSha256(key, body))

\* Tokens that differ from a genuine one: another tag, one hex digit
\* changed, the last hex digit dropped.
OtherTag(tok) == "sha1=" \o SubSeq(tok, 8, Len(tok))
FlipLast(tok) ==
    SubSeq(tok, 1, Len(tok) - 1) \o (IF CharAt(tok, Len(tok)) = "0" THEN "1" ELSE "0")
DropLast(tok) == SubSeq(tok, 1, Len(tok) - 1)

SignatureHeaders(tok) ==
    {Undefined, "", tok, OtherTag(tok), FlipLast(tok), DropLast(tok)}

----------------------------------------------------------------------------
(* Feedback Parser *)

NoMatch == [matched |-> FALSE]

\* last index of the run of characters satisfying the class that starts at i
\* (i - 1 when the run is empty)
RECURSIVE DigitRunEnd(_, _)
DigitRunEnd(s, i) ==
    IF i <= Len(s) /\ IsDigit(CharAt(s, i)) THEN DigitRunEnd(s, i + 1) ELSE i - 1

RECURSIVE SpaceRunEnd(_, _)
SpaceRunEnd(s, i) ==
    IF i <= Len(s) /\ IsSpace(CharAt(s, i)) THEN SpaceRunEnd(s, i + 1) ELSE i - 1

HasLineTerminator(s) == \E i \in 1..Len(s) : IsLineTerminator(CharAt(s, i))

\* line.match(/^- Line (\d+):\s*(.+)$/)
LineMatch(line) ==
    IF ~StartsWith(line, "- Line ") THEN NoMatch
    ELSE LET e == DigitRunEnd(line, 8) IN
         IF e < 8 \/ e + 1 > Len(line) THEN NoMatch
         ELSE IF CharAt(line, e + 1) /= ":" THEN NoMatch
         ELSE LET rest == SubSeq(line, e + 2, Len(line))
                  w == SpaceRunEnd(rest, 1)
                  \* \s* is greedy and gives back one character when
                  \* nothing is left for (.+)
                  grp == IF w < Len(rest) THEN SubSeq(rest, w + 1, Len(rest))
                         ELSE IF Len(rest) > 0 THEN CharAt(rest, Len(rest))
                         ELSE ""
              IN  IF grp = "" \/ HasLineTerminator(grp) THEN NoMatch
                  ELSE [matched |-> TRUE, num |-> SubSeq(line, 8, e), text |-> grp]

RECURSIVE ParseLines(_)
ParseLines(lines) ==
    IF Len(lines) = 0 THEN <<>>
    ELSE LET match == LineMatch(Head(lines))
             found == IF match.matched
                      THEN LET lineNumber == ParseInt(match.num)
                               comment == Trim(match.text)
                           IN  IF lineNumber > 0 /\ Truthy(comment)
                               THEN <<[line |-> lineNumber, comment |-> comment]>>
                               ELSE <<>>
                      ELSE <<>>
         IN  found \o ParseLines(Tail(lines))

parseLineComments(text) == ParseLines(SplitLines(text))

----------------------------------------------------------------------------
(* Data the platform and the model service return *)

\* JSON.parse(bodyText) on the bodies of the model
JSONParse(text) ==
    LET pull(n) == [number |-> n, head |-> [ref |-> "feature", sha |-> "c0ffee"]]
        repository == [name |-> "demo", owner |-> [login |-> "octo"]]
    IN  CASE text = BodyOpened ->
               [ok |-> TRUE, value |-> [action |-> "opened", pull_request |-> pull(7),
                                        repository |-> repository]]
          [] text = BodySynchronize ->
               [ok |-> TRUE, value |-> [action |-> "synchronize", pull_request |-> pull(8),
                                        repository |-> repository]]
          [] text = BodyClosed ->
               [ok |-> TRUE, value |-> [action |-> "closed", pull_request |-> pull(7),
                                        repository |-> repository]]
          [] text = BodyNoAction ->
               [ok |-> TRUE, value |-> [action |-> Undefined, pull_request |-> pull(0),
                                        repository |-> repository]]
          [] OTHER -> [ok |-> FALSE, error |-> "Unexpected token p in JSON at position 0"]

Events == {"pull_request", "push", Undefined}

codeExtensions ==
    <<".js", ".ts", ".jsx", ".tsx", ".py", ".java", ".go", ".rb", ".php",
      ".cs", ".cpp", ".c">>

isCodeFile(filename) ==
    \E i \in 1..Len(codeExtensions) : EndsWith(filename, codeExtensions[i])

\* Entries of the pull-request file list.  A field the platform left out is
\* Undefined.
FileEntries ==
    { [filename |-> "src/app.ts", status |-> "modified", patch |-> "@@ -1 +1 @@"],
      [filename |-> "old/gone.ts", status |-> "deleted", patch |-> Undefined],
      [filename |-> "README.md", status |-> "modified", patch |-> "@@ -2 +2 @@"],
      [filename |-> Undefined, status |-> "modified", patch |-> "@@ -3 +3 @@"] }

FileLists == UNION { [1..n -> FileEntries] : n \in 0..MaxFiles }

\* Outcomes of the fetch in getPRFiles
FilesResults ==
    { [kind |-> "network", ok |-> FALSE, statusText |-> "", files |-> <<>>],
      [kind |-> "http", ok |-> FALSE, statusText |-> "Not Found", files |-> <<>>] }
    \cup { [kind |-> "http", ok |-> TRUE, statusText |-> "OK", files |-> fs] : fs \in FileLists }

\* Outcomes of the fetch in getFileContent
ContentResults ==
    { [kind |-> "network", ok |-> FALSE, text |-> ""],
      [kind |-> "http", ok |-> FALSE, text |-> "Not Found"],
      [kind |-> "http", ok |-> TRUE, text |-> "export const x = 1;"] }

\* Texts the model service answers with
TextClean == "Looks good!"
TextFindings == "- Line 12: Missing null check\n- Line 7: Unused variable\nSome other prose"
TextFindingPraise == "Mostly fine.\n- Line 3: Looks good, but rename x"
TextProse == "Consider splitting this function."
TextRejected == "- Line 0: bad\n- Line abc: bad"

ReviewTexts == {TextClean, TextFindings, TextFindingPraise, TextProse, TextRejected}

\* An optional object is a sequence of length 0 (absent) or 1 (present).
Part(text) == [text |-> text]
Candidate(finishReason, c) == [finishReason |-> finishReason, content |-> c]
Data(candidates) == [kind |-> "http", ok |-> TRUE, error |-> "", candidates |-> candidates]

\* Outcomes of the fetch in reviewCode
ReviewResults ==
    { [kind |-> "http", ok |-> FALSE, error |-> "quota exceeded", candidates |-> <<>>],
      Data(<<>>),
      Data(<<Candidate("MAX_TOKENS", <<[parts |-> <<Part(TextClean)>>]>>)>>),
      Data(<<Candidate("MAX_TOKENS", <<>>)>>),
      Data(<<Candidate("STOP", <<>>)>>),
      Data(<<Candidate("STOP", <<[parts |-> <<>>]>>)>>),
      Data(<<Candidate("STOP", <<[parts |-> <<Part(Undefined)>>]>>)>>) }
    \cup { Data(<<Candidate("STOP", <<[parts |-> <<Part(t)>>]>>)>>) : t \in ReviewTexts }

----------------------------------------------------------------------------
(* Results of a call: a value or a thrown error *)

Return(v) == [threw |-> FALSE, value |-> v, error |-> ""]
Throw(msg) == [threw |-> TRUE, value |-> Undefined, error |-> msg]

\* Mutant: a non-success response is taken for an empty list.
getPRFiles_Swallow(r) ==
    IF r.kind = "network" THEN Throw("fetch failed")
    ELSE IF ~r.ok THEN Return(<<>>)
    ELSE Return(r.files)

\* getPRFiles, from the outcome of its fetch
getPRFiles(r) ==
    IF r.kind = "network" THEN Throw("fetch failed")
    ELSE IF ~r.ok THEN Throw("Failed to fetch PR files: " \o r.statusText)
    ELSE Return(r.files)

\* Mutant: a transport error is thrown to the caller.
getFileContent_Rethrow(r) ==
    IF r.kind = "network" THEN Throw("fetch failed")
    ELSE IF ~r.ok THEN Return(Null)
    ELSE Return(r.text)

\* getFileContent, from the outcome of its fetch
getFileContent(r) ==
    IF r.kind = "network" THEN Return(Null)
    ELSE IF ~r.ok THEN Return(Null)
    ELSE Return(r.text)

TruncatedMessage ==
    "Code review completed but response was truncated due to length. The code appears to have multiple issues that need attention."
FallbackMessage ==
    "Code review completed. Please check the code for potential issues."

\* Mutant: the text of the candidate is returned whenever there is one, also
\* for a truncated candidate.
reviewCode_TextFirst(r) ==
    IF ~r.ok THEN Throw("Gemini API error: " \o r.error)
    ELSE IF Len(r.candidates) = 0 THEN Throw("No candidates in Gemini response")
    ELSE LET candidate == r.candidates[1] IN
         IF /\ Len(candidate.content) > 0
            /\ Len(candidate.content[1].parts) > 0
         THEN Return(candidate.content[1].parts[1].text)
         ELSE IF candidate.finishReason = "MAX_TOKENS" THEN Return(TruncatedMessage)
         ELSE Return(FallbackMessage)

\* reviewCode, from the outcome of its fetch
reviewCode(r) ==
    IF ~r.ok THEN Throw("Gemini API error: " \o r.error)
    ELSE IF Len(r.candidates) = 0 THEN Throw("No candidates in Gemini response")
    ELSE LET candidate == r.candidates[1] IN
         IF candidate.finishReason = "MAX_TOKENS" THEN Return(TruncatedMessage)
         ELSE IF /\ Len(candidate.content) > 0
                 /\ Len(candidate.content[1].parts) > 0
              THEN Return(candidate.content[1].parts[1].text)
         ELSE Return(FallbackMessage)

\* postPRComment and postLineComment, from the outcome of their fetch
postPRComment(ok) ==
    IF ~ok THEN Throw("Failed to post comment: Forbidden") ELSE Return("created")

postLineComment(ok) ==
    IF ~ok THEN Throw("Failed to post line comment: Unprocessable Entity")
    ELSE Return("created")

\* Mutant: the general comment carries no header.
GeneralComment_NoHeader(filename, text) == text

GeneralComment(filename, text) == "**Code Review: " \o filename \o "**\n\n" \o text

----------------------------------------------------------------------------
(* POST /webhook *)

request == <<bodyText, signature, event, secret, signed>>
parser == <<parseArg, parseResult>>
pair == <<active, suspended>>

\* no other invocation
NoFrame == [pc |-> "none"]

Json(status, body) == [status |-> status, body |-> body]

TypeErrorEndsWith == "Cannot read properties of undefined (reading 'endsWith')"
TypeErrorIncludes == "Cannot read properties of undefined (reading 'includes')"

\* Mutant: only the creation of a pull request is accepted.
AcceptedActions_OpenedOnly == {"opened"}

AcceptedActions == {"opened", "synchronize"}

\* The filter at the head of the loop body, run from position i on: the
\* position of the next file to review, the end of the list, or the
\* position where the filter throws.
RECURSIVE NextCandidate(_, _)
NextCandidate(fs, i) ==
    IF i > Len(fs) THEN [kind |-> "end", at |-> i]
    ELSE IF fs[i].status = "deleted" THEN NextCandidate(fs, i + 1)
    ELSE IF fs[i].filename = Undefined THEN [kind |-> "throw", at |-> i]
    ELSE IF isCodeFile(fs[i].filename) THEN [kind |-> "review", at |-> i]
    ELSE NextCandidate(fs, i + 1)

Context(p) ==
    [owner |-> p.repository.owner.login, repo |-> p.repository.name,
     prNumber |-> p.pull_request.number]

NoCall == [op |-> "none", file |-> 0]
NoReply == [kind |-> "none", ok |-> FALSE]

CallGetPRFiles(p) ==
    [op |-> "getPRFiles", file |-> 0, pr |-> Context(p)]
CallGetFileContent(p, fs, i) ==
    [op |-> "getFileContent", file |-> i, pr |-> Context(p),
     ref |-> p.pull_request.head.ref, path |-> fs[i].filename]
CallReviewCode(fs, i, c) ==
    [op |-> "reviewCode", file |-> i, filename |-> fs[i].filename,
     patch |-> fs[i].patch, content |-> c]
CallPostLineComment(p, fs, i, lc) ==
    [op |-> "postLineComment", file |-> i, pr |-> Context(p),
     commitId |-> p.pull_request.head.sha, path |-> fs[i].filename,
     line |-> lc.line, body |-> lc.comment]
CallPostPRComment(p, fs, i, text) ==
    [op |-> "postPRComment", file |-> i, pr |-> Context(p),
     body |-> GeneralComment(fs[i].filename, text)]

\* What the log of calls keeps of a call: everything but the file content
\* handed to reviewCode.
Logged(call) ==
    IF call.op = "reviewCode"
    THEN [op |-> call.op, file |-> call.file, filename |-> call.filename,
          patch |-> call.patch]
    ELSE call

\* Start an external call: the handler is suspended until its fetch returns.
Issue(call) ==
    /\ calls' = Append(calls, Logged(call))
    /\ pending' = call

\* Send the response; the handler returns.
Respond(status, body) ==
    /\ pc' = "done"
    /\ responses' = Append(responses, Json(status, body))

\* Mutant: the top-level catch logs the error and sends no response.
TopCatch_Silent(msg, log) ==
    /\ caught' = Append(log, [where |-> "top", file |-> 0, error |-> msg])
    /\ pc' = "done"
    /\ UNCHANGED responses

\* The top-level catch: log the error and answer 500 with its message.
TopCatch(msg, log) ==
    /\ caught' = Append(log, [where |-> "top", file |-> 0, error |-> msg])
    /\ Respond(500, [error |-> msg])

\* Run the loop from position from on, until the next await or the response.
LoopFrom(fs, from, log) ==
    LET n == NextCandidate(fs, from) IN
    /\ idx' = n.at
    /\ content' = Undefined
    /\ lineComments' = <<>>
    /\ k' = 0
    /\ CASE n.kind = "review" ->
              /\ pc' = "getFileContent"
              /\ Issue(CallGetFileContent(payload[1], fs, n.at))
              /\ caught' = log
              /\ UNCHANGED responses
         [] n.kind = "end" ->
              /\ Respond(200, [message |-> "Review completed",
                               pr_number |-> payload[1].pull_request.number,
                               files_reviewed |-> Len(fs)])
              /\ caught' = log
              /\ pending' = NoCall
              /\ UNCHANGED calls
         [] n.kind = "throw" ->
              /\ TopCatch(TypeErrorEndsWith, log)
              /\ pending' = NoCall
              /\ UNCHANGED calls

\* Mutant: after an error the same file is tried again.
FileCatch_Retry(msg) ==
    LoopFrom(files, idx,
             Append(caught, [where |-> "file", file |-> idx, error |-> msg]))

\* The catch of the per-file try: log the error and go on with the next file.
FileCatch(msg) ==
    LoopFrom(files, idx + 1,
             Append(caught, [where |-> "file", file |-> idx, error |-> msg]))

\* Lines 255-267: read the request, reject a missing signature, start the
\* verification.
Receive ==
    /\ pc = "start"
    /\ IF ~Truthy(signature)
       THEN /\ Respond(401, [error |-> "No signature provided"])
            /\ UNCHANGED verifierCalled
       ELSE /\ pc' = "verify"
            /\ verifierCalled' = TRUE
            /\ UNCHANGED responses
    /\ UNCHANGED <<request, parser, pair, isValid, payload, files, idx, content, review,
                   lineComments, k, calls, pending, reply, caught, delays>>

\* Lines 269-299: the verification returns; route the event, parse the
\* body, derive the pull-request context and start the file-list fetch.
VerifyReturn ==
    /\ pc = "verify"
    /\ isValid' = verifyWebhookSignature(bodyText, signature, secret)
    /\ LET parsed == JSONParse(bodyText) IN
       IF ~isValid'
       THEN /\ Respond(401, [error |-> "Invalid signature"])
            /\ UNCHANGED <<payload, calls, pending, caught>>
       ELSE IF event /= "pull_request"
       THEN /\ Respond(200, [message |-> "Event ignored"])
            /\ UNCHANGED <<payload, calls, pending, caught>>
       ELSE IF ~parsed.ok
       THEN /\ TopCatch(parsed.error, caught)
            /\ UNCHANGED <<payload, calls, pending>>
       ELSE /\ payload' = <<parsed.value>>
            /\ IF parsed.value.action \notin AcceptedActions
               THEN /\ Respond(200, [message |-> "Action ignored"])
                    /\ UNCHANGED <<calls, pending, caught>>
               ELSE /\ pc' = "getPRFiles"
                    /\ Issue(CallGetPRFiles(parsed.value))
                    /\ UNCHANGED <<responses, caught>>
    /\ UNCHANGED <<request, parser, pair, verifierCalled, files, idx, content, review,
                   lineComments, k, reply, delays>>

\* Lines 294-338: the file-list fetch returns; answer an empty list, or
\* enter the loop.
GetPRFilesReturn ==
    /\ pc = "getPRFiles"
    /\ \E r \in FilesResults :
         LET res == getPRFiles(r) IN
         /\ reply' = [kind |-> r.kind, ok |-> r.ok]
         /\ IF res.threw
            THEN /\ TopCatch(res.error, caught)
                 /\ pending' = NoCall
                 /\ UNCHANGED <<files, idx, content, review, lineComments, k, calls>>
            ELSE /\ files' = res.value
                 /\ review' = [i \in 1..Len(res.value) |-> Undefined]
                 /\ IF Len(res.value) = 0
                    THEN /\ Respond(200, [message |-> "No files to review"])
                         /\ pending' = NoCall
                         /\ UNCHANGED <<idx, content, lineComments, k, calls, caught>>
                    ELSE LoopFrom(res.value, 1, caught)
    /\ UNCHANGED <<request, parser, pair, verifierCalled, isValid, payload, delays>>

\* Lines 332-344: the content fetch returns; start the model call.
GetFileContentReturn ==
    /\ pc = "getFileContent"
    /\ \E r \in ContentResults :
         LET res == getFileContent(r) IN
         /\ reply' = r
         /\ IF res.threw
            THEN FileCatch(res.error)
            ELSE /\ content' = res.value
                 /\ pc' = "reviewCode"
                 /\ Issue(CallReviewCode(files, idx, res.value))
                 /\ UNCHANGED <<idx, lineComments, k, caught, responses>>
    /\ UNCHANGED <<request, parser, pair, verifierCalled, isValid, payload, files, review, delays>>

\* Lines 346-379: what the handler publishes for a review text.
PublishPlan(text) ==
    IF ~Includes(text, "Looks good")
    THEN LET lc == parseLineComments(text) IN
         IF Len(lc) > 0 THEN [kind |-> "lines", lineComments |-> lc]
         ELSE [kind |-> "general", lineComments |-> <<>>]
    ELSE [kind |-> "skip", lineComments |-> <<>>]

\* Lines 339-376: the model call returns; publish nothing, start the first
\* line comment, or start the general comment.
ReviewCodeReturn ==
    /\ pc = "reviewCode"
    /\ \E r \in ReviewResults :
         LET res == reviewCode(r) IN
         /\ reply' = r
         /\ IF res.threw
            THEN /\ FileCatch(res.error)
                 /\ UNCHANGED review
            ELSE /\ review' = [review EXCEPT ![idx] = res.value]
                 /\ IF res.value = Undefined
                    THEN FileCatch(TypeErrorIncludes)
                    ELSE LET plan == PublishPlan(res.value) IN
                         CASE plan.kind = "skip" ->
                                /\ pc' = "delay"
                                /\ pending' = NoCall
                                /\ UNCHANGED <<idx, content, lineComments, k, calls,
                                               caught, responses>>
                           [] plan.kind = "lines" ->
                                /\ pc' = "postLineComment"
                                /\ lineComments' = plan.lineComments
                                /\ k' = 1
                                /\ Issue(CallPostLineComment(payload[1], files, idx,
                                                             plan.lineComments[1]))
                                /\ UNCHANGED <<idx, content, caught, responses>>
                           [] plan.kind = "general" ->
                                /\ pc' = "postPRComment"
                                /\ Issue(CallPostPRComment(payload[1], files, idx, res.value))
                                /\ UNCHANGED <<idx, content, lineComments, k, caught,
                                               responses>>
    /\ UNCHANGED <<request, parser, pair, verifierCalled, isValid, payload, files, delays>>

\* Mutant: the general comment is posted after the line comments as well.
PostLineCommentReturn_ThenGeneral ==
    /\ pc = "postLineComment"
    /\ \E ok \in BOOLEAN :
         LET res == postLineComment(ok) IN
         /\ reply' = [kind |-> "http", ok |-> ok]
         /\ caught' = IF res.threw
                      THEN Append(caught, [where |-> "line", file |-> idx,
                                           error |-> res.error])
                      ELSE caught
         /\ IF k < Len(lineComments)
            THEN /\ k' = k + 1
                 /\ Issue(CallPostLineComment(payload[1], files, idx, lineComments[k + 1]))
                 /\ UNCHANGED pc
            ELSE /\ pc' = "postPRComment"
                 /\ Issue(CallPostPRComment(payload[1], files, idx, review[idx]))
                 /\ UNCHANGED k
    /\ UNCHANGED <<request, parser, pair, verifierCalled, isValid, payload, files, idx, content,
                   review, lineComments, delays, responses>>

\* Mutant: a failed line comment leaves the try block of the file.
PostLineCommentReturn_Abort ==
    /\ pc = "postLineComment"
    /\ \E ok \in BOOLEAN :
         LET res == postLineComment(ok) IN
         /\ reply' = [kind |-> "http", ok |-> ok]
         /\ IF res.threw
            THEN FileCatch(res.error)
            ELSE /\ caught' = caught
                 /\ UNCHANGED <<idx, content, lineComments, responses>>
                 /\ IF k < Len(lineComments)
                    THEN /\ k' = k + 1
                         /\ Issue(CallPostLineComment(payload[1], files, idx,
                                                      lineComments[k + 1]))
                         /\ UNCHANGED pc
                    ELSE /\ pc' = "delay"
                         /\ pending' = NoCall
                         /\ UNCHANGED <<k, calls>>
    /\ UNCHANGED <<request, parser, pair, verifierCalled, isValid, payload, files, review, delays>>

\* Lines 352-370: a line comment post returns; a failure is caught and
\* logged; start the next line comment or the pacing delay.
PostLineCommentReturn ==
    /\ pc = "postLineComment"
    /\ \E ok \in BOOLEAN :
         LET res == postLineComment(ok) IN
         /\ reply' = [kind |-> "http", ok |-> ok]
         /\ caught' = IF res.threw
                      THEN Append(caught, [where |-> "line", file |-> idx,
                                           error |-> res.error])
                      ELSE caught
         /\ IF k < Len(lineComments)
            THEN /\ k' = k + 1
                 /\ Issue(CallPostLineComment(payload[1], files, idx, lineComments[k + 1]))
                 /\ UNCHANGED pc
            ELSE /\ pc' = "delay"
                 /\ pending' = NoCall
                 /\ UNCHANGED <<k, calls>>
    /\ UNCHANGED <<request, parser, pair, verifierCalled, isValid, payload, files, idx, content,
                   review, lineComments, delays, responses>>

\* Lines 372-376: the general comment post returns; start the pacing delay,
\* or leave the try block with the error.
PostPRCommentReturn ==
    /\ pc = "postPRComment"
    /\ \E ok \in BOOLEAN :
         LET res == postPRComment(ok) IN
         /\ reply' = [kind |-> "http", ok |-> ok]
         /\ IF res.threw
            THEN FileCatch(res.error)
            ELSE /\ pc' = "delay"
                 /\ pending' = NoCall
                 /\ UNCHANGED <<idx, content, lineComments, k, calls, caught, responses>>
    /\ UNCHANGED <<request, parser, pair, verifierCalled, isValid, payload, files, review, delays>>

\* Line 381: the pacing delay elapses; go on with the next file.
DelayElapsed ==
    /\ pc = "delay"
    /\ delays' = delays \cup {idx}
    /\ LoopFrom(files, idx + 1, caught)
    /\ UNCHANGED <<request, parser, pair, verifierCalled, isValid, payload, files, review, reply>>

----------------------------------------------------------------------------
(* The specification: one webhook call, from the arrival of the request *)

Init ==
    /\ pc = "start"
    /\ signed \in [body : {BodyTexts[i] : i \in 1..Len(BodyTexts)},
                   key : {Secrets[i] : i \in 1..Len(Secrets)}]
    /\ bodyText \in {BodyTexts[i] : i \in 1..Len(BodyTexts)}
    /\ secret \in {Secrets[i] : i \in 1..Len(Secrets)}
    /\ signature \in SignatureHeaders(SenderSignature(signed.body, signed.key))
    /\ event \in Events
    /\ verifierCalled = FALSE
    /\ isValid = FALSE
    /\ payload = <<>>
    /\ files = <<>>
    /\ idx = 0
    /\ content = Undefined
    /\ review = <<>>
    /\ lineComments = <<>>
    /\ k = 0
    /\ calls = <<>>
    /\ pending = NoCall
    /\ reply = NoReply
    /\ caught = <<>>
    /\ delays = {}
    /\ responses = <<>>
    /\ parseArg = ""
    /\ parseResult = <<>>
    /\ active = 0
    /\ suspended = NoFrame

Next ==
    \/ Receive
    \/ VerifyReturn
    \/ GetPRFilesReturn
    \/ GetFileContentReturn
    \/ ReviewCodeReturn
    \/ PostLineCommentReturn
    \/ PostPRCommentReturn
    \/ DelayElapsed

Spec == Init /\ [][Next]_vars

\* Every external call returns, with a result or an error, and the runtime
\* resumes the handler: a step that is possible is eventually taken.
FairSpec == Spec /\ WF_vars(Next)

----------------------------------------------------------------------------
(* The specification of parseLineComments on its own: one call, on a text
   of at most MaxLines lines *)

\* Lines a review text is made of
ParserLines ==
    { "- Line 12: Missing null check", "- Line 7: Unused variable",
      "Some other prose", "Looks good!", "",
      "- Line 0: bad", "- Line abc: bad", "- Line -2: negative",
      "- Line 5:", "- Line 5:   ", "- Line 5:x", "- Line 007:  padded \t",
      "- Line 9: a: b", "- Line 8 : early space", "- Line 6 Missing colon",
      " - Line 4: indented", "- line 4: lower case", "* Line 4: other bullet",
      "- Line 3: fix\r", "- Line 2: \r then text" }

RECURSIVE JoinLines(_)
JoinLines(lines) ==
    IF Len(lines) = 1 THEN lines[1]
    ELSE lines[1] \o "\n" \o JoinLines(Tail(lines))

ParserTexts ==
    { JoinLines(lines) : lines \in UNION { [1..n -> ParserLines] : n \in 1..MaxLines } }

\* Lines 194-212: the call returns.
ParseReturn ==
    /\ pc = "parseLineComments"
    /\ parseResult' = parseLineComments(parseArg)
    /\ pc' = "parsed"
    /\ UNCHANGED <<request, parseArg, pair, verifierCalled, isValid, payload, files, idx,
                   content, review, lineComments, k, calls, pending, reply,
                   caught, delays, responses>>

ParserInit ==
    /\ pc = "parseLineComments"
    /\ parseArg \in ParserTexts
    /\ parseResult = <<>>
    /\ bodyText = ""
    /\ signature = Undefined
    /\ event = Undefined
    /\ secret = ""
    /\ signed = [body |-> "", key |-> ""]
    /\ verifierCalled = FALSE
    /\ isValid = FALSE
    /\ payload = <<>>
    /\ files = <<>>
    /\ idx = 0
    /\ content = Undefined
    /\ review = <<>>
    /\ lineComments = <<>>
    /\ k = 0
    /\ calls = <<>>
    /\ pending = NoCall
    /\ reply = NoReply
    /\ caught = <<>>
    /\ delays = {}
    /\ responses = <<>>
    /\ active = 0
    /\ suspended = NoFrame

ParserNext == ParseReturn

ParserSpec == ParserInit /\ [][ParserNext]_vars

----------------------------------------------------------------------------
(* The specification of two invocations of the handler in one isolate: one
   runs from an await to its next await while the other is suspended, and
   the runtime resumes either of them *)

\* The local variables of the running invocation
Frame ==
    [pc |-> pc, bodyText |-> bodyText, signature |-> signature, event |-> event,
     secret |-> secret, signed |-> signed, verifierCalled |-> verifierCalled,
     isValid |-> isValid, payload |-> payload, files |-> files, idx |-> idx,
     content |-> content, review |-> review, lineComments |-> lineComments,
     k |-> k, calls |-> calls, pending |-> pending, reply |-> reply,
     caught |-> caught, delays |-> delays, responses |-> responses]

\* Mutant: lineComments is one array of the module, shared by the
\* invocations.
Restore_SharedLineComments(f) ==
    /\ pc' = f.pc
    /\ bodyText' = f.bodyText
    /\ signature' = f.signature
    /\ event' = f.event
    /\ secret' = f.secret
    /\ signed' = f.signed
    /\ verifierCalled' = f.verifierCalled
    /\ isValid' = f.isValid
    /\ payload' = f.payload
    /\ files' = f.files
    /\ idx' = f.idx
    /\ content' = f.content
    /\ review' = f.review
    /\ lineComments' = lineComments
    /\ k' = f.k
    /\ calls' = f.calls
    /\ pending' = f.pending
    /\ reply' = f.reply
    /\ caught' = f.caught
    /\ delays' = f.delays
    /\ responses' = f.responses

\* The runtime resumes an invocation: its local variables are the ones it
\* was suspended with.
Restore(f) ==
    /\ pc' = f.pc
    /\ bodyText' = f.bodyText
    /\ signature' = f.signature
    /\ event' = f.event
    /\ secret' = f.secret
    /\ signed' = f.signed
    /\ verifierCalled' = f.verifierCalled
    /\ isValid' = f.isValid
    /\ payload' = f.payload
    /\ files' = f.files
    /\ idx' = f.idx
    /\ content' = f.content
    /\ review' = f.review
    /\ lineComments' = f.lineComments
    /\ k' = f.k
    /\ calls' = f.calls
    /\ pending' = f.pending
    /\ reply' = f.reply
    /\ caught' = f.caught
    /\ delays' = f.delays
    /\ responses' = f.responses

\* The running invocation is suspended at its await, or has returned, and
\* the runtime resumes the other one.
Switch ==
    /\ active \in {1, 2}
    /\ suspended.pc /= "done"
    /\ Restore(suspended)
    /\ suspended' = Frame
    /\ active' = 3 - active
    /\ UNCHANGED parser

\* What the platform and the model service return to the two invocations
PairFileLists ==
    { <<[filename |-> "src/app.ts", status |-> "modified", patch |-> "@@ -1 +1 @@"]>> }
PairReviewTexts == {TextFindings, TextProse, TextClean}

PairData ==
    /\ files = <<>> \/ files \in PairFileLists
    /\ content /= Null
    /\ \A i \in 1..Len(review) : review[i] \in PairReviewTexts \cup {Undefined}

\* The first frame of an invocation with a signed pull_request event
FirstFrame(body) ==
    [pc |-> "start", bodyText |-> body,
     signature |-> SenderSignature(body, Secrets[1]), event |-> "pull_request",
     secret |-> Secrets[1], signed |-> [body |-> body, key |-> Secrets[1]],
     verifierCalled |-> FALSE, isValid |-> FALSE, payload |-> <<>>,
     files |-> <<>>, idx |-> 0, content |-> Undefined, review |-> <<>>,
     lineComments |-> <<>>, k |-> 0, calls |-> <<>>, pending |-> NoCall,
     reply |-> NoReply, caught |-> <<>>, delays |-> {}, responses |-> <<>>]

PairInit ==
    /\ active = 1
    /\ suspended = FirstFrame(BodySynchronize)
    /\ pc = FirstFrame(BodyOpened).pc
    /\ bodyText = FirstFrame(BodyOpened).bodyText
    /\ signature = FirstFrame(BodyOpened).signature
    /\ event = FirstFrame(BodyOpened).event
    /\ secret = FirstFrame(BodyOpened).secret
    /\ signed = FirstFrame(BodyOpened).signed
    /\ verifierCalled = FirstFrame(BodyOpened).verifierCalled
    /\ isValid = FirstFrame(BodyOpened).isValid
    /\ payload = FirstFrame(BodyOpened).payload
    /\ files = FirstFrame(BodyOpened).files
    /\ idx = FirstFrame(BodyOpened).idx
    /\ content = FirstFrame(BodyOpened).content
    /\ review = FirstFrame(BodyOpened).review
    /\ lineComments = FirstFrame(BodyOpened).lineComments
    /\ k = FirstFrame(BodyOpened).k
    /\ calls = FirstFrame(BodyOpened).calls
    /\ pending = FirstFrame(BodyOpened).pending
    /\ reply = FirstFrame(BodyOpened).reply
    /\ caught = FirstFrame(BodyOpened).caught
    /\ delays = FirstFrame(BodyOpened).delays
    /\ responses = FirstFrame(BodyOpened).responses
    /\ parseArg = ""
    /\ parseResult = <<>>

PairNext ==
    \/ Receive /\ PairData'
    \/ VerifyReturn /\ PairData'
    \/ GetPRFilesReturn /\ PairData'
    \/ GetFileContentReturn /\ PairData'
    \/ ReviewCodeReturn /\ PairData'
    \/ PostLineCommentReturn /\ PairData'
    \/ PostPRCommentReturn /\ PairData'
    \/ DelayElapsed /\ PairData'
    \/ Switch

PairSpec == PairInit /\ [][PairNext]_vars

----------------------------------------------------------------------------
(* Properties *)

\* the calls of one kind issued for file i, in order
FileCalls(i, op) == SelectSeq(calls, LAMBDA c : c.op = op /\ c.file = i)

\* the handler has gone through the publishing step of file i
Published(i) == idx > i \/ (idx = i /\ pc = "delay")

\* C1: whenever parseLineComments returns at least one finding for the review
\* text of a file, the handler issues exactly one postLineComment call per
\* finding and no postPRComment call for that file, also when the text
\* contains "Looks good".
C1_LineCommentPerFinding ==
    \A i \in 1..Len(files) :
        (Published(i) /\ review[i] /= Undefined
            /\ Len(parseLineComments(review[i])) > 0)
        => LET found == parseLineComments(review[i])
               posted == FileCalls(i, "postLineComment")
           IN  /\ Len(posted) = Len(found)
               /\ \A j \in 1..Len(found) :
                    posted[j].line = found[j].line /\ posted[j].body = found[j].comment
               /\ Len(FileCalls(i, "postPRComment")) = 0

C3_NeverMixed ==
    \A i \in 1..Len(files) :
        /\ ~(Len(FileCalls(i, "postPRComment")) > 0 /\ Len(FileCalls(i, "postLineComment")) > 0)
        /\ Len(FileCalls(i, "postPRComment")) <= 1

C3_Witness ==
    \E i, j \in 1..Len(files) :
        /\ Len(FileCalls(i, "postLineComment")) > 1
        /\ Len(FileCalls(j, "postPRComment")) = 1

\* C4: when the content fetch, reviewCode or postPRComment fails for a
\* candidate file, every later candidate file of the list is still reviewed
\* and the response is 200 "Review completed".
C4_FailureIsolated ==
    \A e \in 1..Len(caught) :
        (pc = "done" /\ caught[e].where = "file")
        => /\ \A j \in (caught[e].file + 1)..Len(files) :
                (files[j].status /= "deleted" /\ files[j].filename /= Undefined
                    /\ isCodeFile(files[j].filename))
                => Len(FileCalls(j, "reviewCode")) = 1
           /\ Len(responses) = 1
           /\ responses[1].status = 200
           /\ responses[1].body.message = "Review completed"

\* C5: once a non-empty file list has been fetched, the response is never
\* 500, whatever the entries of the list.
C5_NoEscape ==
    Len(files) > 0 => \A n \in 1..Len(responses) : responses[n].status /= 500

\* C6: a call without signature header is answered 401 "No signature
\* provided" and the verifier is not invoked; a call whose signature fails
\* verification is answered 401 "Invalid signature"; in both cases the body
\* is not parsed and no external call is issued.
C6_RejectedBeforePipeline ==
    /\ signature = Undefined
        => /\ ~verifierCalled
           /\ payload = <<>>
           /\ calls = <<>>
           /\ pc = "done" => responses = <<Json(401, [error |-> "No signature provided"])>>
    /\ (verifierCalled /\ pc \notin {"start", "verify"} /\ ~isValid)
        => /\ pc = "done"
           /\ responses = <<Json(401, [error |-> "Invalid signature"])>>
           /\ payload = <<>>
           /\ calls = <<>>

C6_Witness ==
    /\ signature = Undefined
    /\ pc = "done"
    /\ responses = <<Json(401, [error |-> "No signature provided"])>>

\* C7: the verifier answers true exactly when the signature is the token of
\* the body under the secret: true for the token the sender computed for
\* this body with this secret, false when the body, the key or the token
\* differs from the signed one.
C7_VerifierExact ==
    (verifierCalled /\ pc \notin {"start", "verify"})
    => /\ isValid <=> signature = SenderSignature(bodyText, secret)
       /\ isValid <=> /\ bodyText = signed.body
                      /\ secret = signed.key
                      /\ signature = SenderSignature(signed.body, signed.key)

C7_Witness ==
    /\ verifierCalled
    /\ pc \notin {"start", "verify"}
    /\ isValid
    /\ bodyText = BodyNotJson

\* C8: after a valid signature the file-list fetch is started exactly when
\* the event is "pull_request" and the action of the payload is "opened" or
\* "synchronize"; any other event is answered 200 "Event ignored", any
\* other action of a pull_request event 200 "Action ignored", with no
\* external call.
C8_Router ==
    (verifierCalled /\ isValid /\ pc \notin {"start", "verify"})
    => LET accepted == /\ event = "pull_request"
                       /\ payload /= <<>>
                       /\ payload[1].action \in {"opened", "synchronize"}
       IN  /\ accepted <=> (Len(calls) > 0 /\ calls[1].op = "getPRFiles")
           /\ ~accepted => calls = <<>> /\ pc = "done"
           /\ event /= "pull_request"
               => responses = <<Json(200, [message |-> "Event ignored"])>>
           /\ (event = "pull_request" /\ payload /= <<>>
                  /\ payload[1].action \notin {"opened", "synchronize"})
               => responses = <<Json(200, [message |-> "Action ignored"])>>

C8_Witness ==
    /\ isValid
    /\ pc = "getPRFiles"
    /\ payload[1].action = "synchronize"
    /\ pending.op = "getPRFiles"

\* C9: when the fetch of getPRFiles gets a non-success HTTP response, the
\* response is 500 with the failure message and the file-list fetch stays
\* the only external call of the invocation.
C9_FileListFailureAborts ==
    (Len(calls) = 1 /\ reply.kind = "http" /\ ~reply.ok)
    => /\ pc = "done"
       /\ responses = <<Json(500, [error |-> "Failed to fetch PR files: Not Found"])>>
       /\ calls[1].op = "getPRFiles"

C9_Witness ==
    /\ Len(calls) = 1
    /\ reply.kind = "http"
    /\ ~reply.ok
    /\ pc = "done"
    /\ responses[1].status = 500

Qualifies(i) ==
    /\ files[i].status /= "deleted"
    /\ files[i].filename /= Undefined
    /\ isCodeFile(files[i].filename)

\* C11: an external call is issued for a file only if the file is not
\* deleted and its filename ends with an allow-listed extension; and when the
\* handler has returned, every file of the list that satisfies both
\* conditions has been handed to reviewCode exactly once.
C11_FilterExact ==
    /\ \A n \in 1..Len(calls) :
         calls[n].file > 0 => Qualifies(calls[n].file)
    /\ pc = "done"
        => \A i \in 1..Len(files) :
             Qualifies(i) => Len(FileCalls(i, "reviewCode")) = 1

\* C12: after a successful file-list fetch the response depends on the
\* length of the list alone: an empty list is answered 200 "No files to
\* review" with no further external call, a non-empty list 200 "Review
\* completed" with files_reviewed the length of the list.
C12_SummaryByLength ==
    /\ (Len(calls) = 1 /\ pc = "done" /\ reply.kind = "http" /\ reply.ok
           /\ Len(files) = 0)
        => responses = <<Json(200, [message |-> "No files to review"])>>
    /\ (pc = "done" /\ Len(files) > 0)
        => responses = <<Json(200, [message |-> "Review completed",
                                    pr_number |-> payload[1].pull_request.number,
                                    files_reviewed |-> Len(files)])>>

\* the line comment failures caught for file i
LineFailures(i) ==
    SelectSeq(caught, LAMBDA e : e.where = "line" /\ e.file = i)

\* C13: the return of a postLineComment call, failed or not, leaves the
\* handler in the same file: when findings remain, the call for the next
\* finding is issued, and after the last one the pacing delay starts with
\* exactly one call per finding issued for the file, in the order of the
\* findings; no response is sent and nothing reaches the per-file catch.
C13_LineFailureContinues ==
    [][ pc = "postLineComment"
        => LET found == parseLineComments(review[idx])
               posted == FileCalls(idx, "postLineComment")
           IN  /\ idx' = idx
               /\ responses' = responses
               /\ lineComments = found
               /\ Len(posted) = k
               /\ \A j \in 1..k :
                    posted[j].line = found[j].line /\ posted[j].body = found[j].comment
               /\ \A e \in 1..Len(caught') :
                    ~(caught'[e].where = "file" /\ caught'[e].file = idx)
               /\ ~reply'.ok => Len(LineFailures(idx))' = Len(LineFailures(idx)) + 1
               /\ IF k < Len(found)
                  THEN /\ pc' = "postLineComment"
                       /\ k' = k + 1
                       /\ pending'.op = "postLineComment"
                       /\ pending'.file = idx
                       /\ pending'.line = found[k + 1].line
                       /\ pending'.body = found[k + 1].comment
                       /\ calls' = Append(calls, pending')
                  ELSE /\ pc' = "delay"
                       /\ calls' = calls
      ]_vars

C13_Witness ==
    \E i \in 1..Len(files) :
        /\ Published(i)
        /\ review[i] = TextFindings
        /\ Len(LineFailures(i)) = 2
        /\ Len(FileCalls(i, "postLineComment")) = 2

\* The lines the contract of the parser names: the marker "- Line ", a run of digits
\* that denotes a positive integer, a colon, and trailing text that is not
\* empty once trimmed.
FindingOf(line) ==
    LET ds == { d \in 1..(Len(line) - 8) :
                  /\ \A j \in 8..(7 + d) : IsDigit(CharAt(line, j))
                  /\ CharAt(line, 8 + d) = ":" }
    IN  IF ~StartsWith(line, "- Line ") \/ ds = {} THEN <<>>
        ELSE LET d == CHOOSE d \in ds : TRUE
                 number == ParseInt(SubSeq(line, 8, 7 + d))
                 trailing == Trim(SubSeq(line, 9 + d, Len(line)))
             IN  IF number > 0 /\ trailing /= ""
                 THEN <<[line |-> number, comment |-> trailing]>>
                 ELSE <<>>

RECURSIVE FindingsOf(_)
FindingsOf(lines) ==
    IF Len(lines) = 0 THEN <<>>
    ELSE FindingOf(Head(lines)) \o FindingsOf(Tail(lines))

\* C14: parseLineComments returns for every text, in the order of the lines,
\* exactly one finding {line, trimmed comment} for each line made of
\* "- Line ", a positive integer, a colon and non-empty trailing text, and
\* nothing for any other line; every line number returned is positive, and
\* "- Line 0: bad", "- Line abc: bad" and "Looks good!" yield no finding.
C14_ParserExact ==
    pc = "parsed"
    => /\ parseResult = FindingsOf(SplitLines(parseArg))
       /\ \A j \in 1..Len(parseResult) : parseResult[j].line > 0
       /\ parseArg \in {"- Line 0: bad", "- Line abc: bad", "Looks good!"}
           => parseResult = <<>>
       /\ parseArg = "- Line 12: Missing null check\n- Line 7: Unused variable"
           => parseResult = << [line |-> 12, comment |-> "Missing null check"],
                          [line |-> 7, comment |-> "Unused variable"] >>

\* C15: when a later file of the list is being processed, the pacing delay
\* has run after every earlier file that was handed to reviewCode, whatever
\* the outcome of that file.
C15_DelayBetweenFiles ==
    \A i, j \in 1..Len(files) :
        (i < j /\ Len(FileCalls(i, "reviewCode")) > 0
               /\ Len(FileCalls(j, "getFileContent")) > 0)
        => i \in delays

\* the handler last resumed from a model call whose first candidate is
\* marked MAX_TOKENS
TruncatedReply ==
    /\ "candidates" \in DOMAIN reply
    /\ reply.ok
    /\ Len(reply.candidates) > 0
    /\ reply.candidates[1].finishReason = "MAX_TOKENS"

\* C16: when the first candidate of the model's answer is marked MAX_TOKENS,
\* with or without text, the review of the file is the fixed truncation
\* message and the handler publishes it: it is suspended at the one general
\* comment of the file, whose body is the header and the message, and no
\* line comment is issued; a file with this review has exactly one general
\* comment when it is left.
C16_TruncatedSurfaced ==
    /\ TruncatedReply
        => /\ pc = "postPRComment"
           /\ review[idx] = TruncatedMessage
           /\ pending.op = "postPRComment"
           /\ pending.file = idx
           /\ pending.body = "**Code Review: " \o files[idx].filename \o "**\n\n"
                               \o TruncatedMessage
           /\ Len(FileCalls(idx, "postPRComment")) = 1
           /\ Len(FileCalls(idx, "postLineComment")) = 0
    /\ \A i \in 1..Len(files) :
         (review[i] = TruncatedMessage /\ Published(i))
         => /\ Len(FileCalls(i, "postPRComment")) = 1
            /\ Len(FileCalls(i, "postLineComment")) = 0

C16_Witness ==
    /\ TruncatedReply
    /\ Len(reply.candidates[1].content) > 0
    /\ reply.candidates[1].content[1].parts[1].text = TextClean
    /\ pc = "postPRComment"
    /\ pending.op = "postPRComment"

\* C17: when the model call returns a success response: with no candidate
\* the call fails with an error, caught for the file; with a non-truncated
\* candidate that carries text the review is that text; with a non-truncated
\* candidate without text (no content, no parts, or a first part without a
\* text field) the review is the fixed fallback message and the handler
\* publishes it as the general comment of the file.
C17_ReviewResponseHandling ==
    [][ (pc = "reviewCode" /\ reply'.ok)
        => LET r == reply' IN
           IF Len(r.candidates) = 0
           THEN /\ review' = review
                /\ idx' > idx
                /\ Len(caught') > Len(caught)
                /\ caught'[Len(caught) + 1] =
                     [where |-> "file", file |-> idx,
                      error |-> "No candidates in Gemini response"]
           ELSE LET c == r.candidates[1]
                    hasText == /\ Len(c.content) > 0
                               /\ Len(c.content[1].parts) > 0
                               /\ c.content[1].parts[1].text /= Undefined
                IN  c.finishReason /= "MAX_TOKENS"
                    => IF hasText
                       THEN review'[idx] = c.content[1].parts[1].text
                       ELSE /\ review'[idx] = FallbackMessage
                            /\ caught' = caught
                            /\ pc' = "postPRComment"
                            /\ pending'.op = "postPRComment"
                            /\ pending'.file = idx
                            /\ pending'.body =
                                 "**Code Review: " \o files[idx].filename \o "**\n\n"
                                   \o FallbackMessage
      ]_vars

\* C18: no call is issued twice: at most one file-list fetch in the
\* invocation; for each file at most one content fetch, one model call and
\* one general comment, and the line comment calls are one per finding of
\* its review, in order, never more than the findings.
C18_NoRetry ==
    /\ Len(SelectSeq(calls, LAMBDA c : c.op = "getPRFiles")) <= 1
    /\ \A i \in 1..Len(files) :
         /\ Len(FileCalls(i, "getFileContent")) <= 1
         /\ Len(FileCalls(i, "reviewCode")) <= 1
         /\ Len(FileCalls(i, "postPRComment")) <= 1
         /\ LET posted == FileCalls(i, "postLineComment") IN
            Len(posted) > 0
            => LET found == parseLineComments(review[i]) IN
               /\ Len(posted) <= Len(found)
               /\ \A j \in 1..Len(posted) :
                    posted[j].line = found[j].line /\ posted[j].body = found[j].comment

\* a file whose model call failed and a later file whose general comment
\* failed, each call issued once
C18_Witness ==
    /\ pc = "done"
    /\ \E e, f \in 1..Len(caught) :
         /\ caught[e].where = "file"
         /\ caught[e].error = "Gemini API error: quota exceeded"
         /\ caught[f].where = "file"
         /\ caught[f].error = "Failed to post comment: Forbidden"
         /\ Len(FileCalls(caught[e].file, "reviewCode")) = 1
         /\ Len(FileCalls(caught[f].file, "postPRComment")) = 1

\* position in the order Received, Verified and Routed, Fetching,
\* Reviewing, terminal
Stage(p) ==
    CASE p = "start" -> 1
      [] p = "verify" -> 2
      [] p = "getPRFiles" -> 3
      [] p \in {"getFileContent", "reviewCode", "postLineComment", "postPRComment",
                "delay"} -> 4
      [] p = "done" -> 5

\* the responses of the terminal states
TerminalResponses ==
    { Json(401, [error |-> "No signature provided"]),
      Json(401, [error |-> "Invalid signature"]),
      Json(200, [message |-> "Event ignored"]),
      Json(200, [message |-> "Action ignored"]),
      Json(200, [message |-> "No files to review"]) }

IsTerminalResponse(r) ==
    \/ r \in TerminalResponses
    \/ r.status = 500 /\ DOMAIN r.body = {"error"}
    \/ /\ r.status = 200
       /\ DOMAIN r.body = {"message", "pr_number", "files_reviewed"}
       /\ r.body.message = "Review completed"

\* C19: every invocation reaches the terminal state, where exactly one
\* response has been sent, one of Rejected (401), Ignored (200), Aborted
\* (500) and Completed (200); before it no response is sent; and the handler
\* moves only forward through Received, Verified, Fetching and Reviewing,
\* one stage at a time unless it ends, with the file index increasing.
C19_OneTerminalState ==
    /\ <>(pc = "done")
    /\ [](/\ pc = "done" <=> Len(responses) = 1
          /\ Len(responses) <= 1
          /\ \A n \in 1..Len(responses) : IsTerminalResponse(responses[n]))
    /\ [][ /\ pc /= "done"
           /\ Stage(pc') > Stage(pc) \/ (Stage(pc) = 4 /\ Stage(pc') = 4)
           /\ Stage(pc') = Stage(pc) + 1 \/ Stage(pc') = Stage(pc) \/ pc' = "done"
           /\ (Stage(pc) = 4 /\ Stage(pc') = 4)
               => /\ idx' >= idx
                  /\ pc' = "getFileContent" => idx' > idx
                  /\ idx' > idx => pc' = "getFileContent"
           /\ Stage(pc') \in {3, 4} => isValid'
         ]_vars

C19_Witness ==
    /\ pc = "done"
    /\ Len(responses) = 1
    /\ responses[1].status = 200
    /\ responses[1].body.message = "Review completed"
    /\ Cardinality(delays) = 2

\* the external calls and the response of an invocation with local
\* variables f are the ones of its own request, file list and review texts
OwnCalls(f) ==
    /\ \A n \in 1..Len(f.calls) :
         LET c == f.calls[n] IN
         /\ c.op /= "reviewCode" => c.pr = Context(f.payload[1])
         /\ c.op = "getFileContent"
             => /\ c.path = f.files[c.file].filename
                /\ c.ref = f.payload[1].pull_request.head.ref
         /\ c.op = "reviewCode"
             => /\ c.filename = f.files[c.file].filename
                /\ c.patch = f.files[c.file].patch
         /\ c.op = "postLineComment"
             => /\ c.path = f.files[c.file].filename
                /\ c.commitId = f.payload[1].pull_request.head.sha
         /\ c.op = "postPRComment"
             => c.body = "**Code Review: " \o f.files[c.file].filename \o "**\n\n"
                           \o f.review[c.file]
    /\ \A i \in 1..Len(f.files) :
         LET posted == SelectSeq(f.calls,
                                 LAMBDA c : c.op = "postLineComment" /\ c.file = i)
             general == SelectSeq(f.calls,
                                  LAMBDA c : c.op = "postPRComment" /\ c.file = i)
             left == f.idx > i \/ (f.idx = i /\ f.pc = "delay")
         IN  IF f.review[i] = Undefined \/ Includes(f.review[i], "Looks good")
             THEN Len(posted) = 0 /\ Len(general) = 0
             ELSE LET found == parseLineComments(f.review[i]) IN
                  /\ Len(posted) <= Len(found)
                  /\ \A j \in 1..Len(posted) :
                       posted[j].line = found[j].line /\ posted[j].body = found[j].comment
                  /\ left => Len(posted) = Len(found)
                  /\ left => Len(general) = (IF Len(found) = 0 THEN 1 ELSE 0)
    /\ \A n \in 1..Len(f.responses) :
         "pr_number" \in DOMAIN f.responses[n].body
         => /\ f.responses[n].body.pr_number = f.payload[1].pull_request.number
            /\ f.responses[n].body.files_reviewed = Len(f.files)

\* C20: with two invocations interleaved at their awaits, a step of the
\* running invocation changes nothing of the suspended one, an invocation
\* is resumed with exactly the local variables it was suspended with, and
\* the calls and the response of each are those of its own request, file
\* list and review texts, as when it runs alone.
C20_NoSharedState ==
    [][ /\ active' = active => suspended' = suspended
        /\ active' /= active => (Frame' = suspended /\ suspended' = Frame)
        /\ OwnCalls(Frame')
        /\ OwnCalls(suspended')
      ]_vars

\* both invocations are in the middle of posting their line comments: the
\* first has gone on to its second one after the other posted its first
C20_Witness ==
    /\ active = 1
    /\ pc = "postLineComment"
    /\ k = 2
    /\ suspended.pc = "postLineComment"
    /\ suspended.k = 1
    /\ payload[1].pull_request.number /= suspended.payload[1].pull_request.number

====
